---- MODULE Spec2Model ----
(***************************************************************************)
(* rhmap: a Robin Hood open-addressed hash index (rhmap.h) and the         *)
(* hash_map<int, int> facade built on it (extra/hash_map.h).               *)
(*                                                                         *)
(* A 32-bit entry word is kept as the record [p, lo]: p is the word's top  *)
(* four bits (bits 28..31, the clamped scan distance) and lo its low 28    *)
(* bits (hash high bits and element index), so word = p * 2^28 + lo.       *)
(* The entry count N = mask + 1 is a power of two, so `x & mask` is        *)
(* x % N and `x & ~mask` is x - x % N for every 28-bit x.                  *)
(***************************************************************************)
EXTENDS Integers, Sequences, FiniteSets, TLC

VARIABLES map, data, last, owned, iters

vars == <<map, data, last, owned, iters>>

-----------------------------------------------------------------------------
(* Program constants *)

\* #define RHMAP_DEFAULT_ENTRY_COUNT 16
RHMAP_DEFAULT_ENTRY_COUNT == 16

\* #define RHMAP_DEFAULT_LOAD_FACTOR 0.8f: the float 0.8f is exactly
\* 13421773 / 2^24; load factors are kept as numerators over 2^24.
RHMAP_DEFAULT_LOAD_FACTOR == 13421773

LoadFactorDen == 16777216

\* 0x0fffffffu + 1: hashes are cut to their low 28 bits
HashLimit == 268435456

\* `scan < 15 ? scan : 15`: the largest value of the 4-bit scan field
ScanClamp == 15

\* `if (num_entries < 4) num_entries = 4;`
MinEntries == 4

-----------------------------------------------------------------------------
(* Bounds of the model *)

\* the caller never holds more than MaxSize elements
MaxSize == 3

\* the caller never asks for more than MaxEntries entry words
MaxEntries == 8

\* the facade's callers never hold more than MaxKeys keys
MaxKeys == 3

\* nor ask for more than MapEntries entry words
MapEntries == 4

\* the allocator has NumBlocks blocks to hand out
NumBlocks == 2

-----------------------------------------------------------------------------
(* Memory *)

\* a NULL pointer: an array with no cells
NULL == <<>>

\* the value of a NULL pointer, and the values of the pointers malloc returns
NullPtr == 0

Pointers == 1 .. NumBlocks

\* malloc(alloc_size): a block that is not allocated (here: the first one)
malloc(allocated) ==
    CHOOSE p \in Pointers \ allocated : \A q \in Pointers \ allocated : p <= q

\* the allocations the index holds once the caller has handed it `given` and
\* got `back` back (NullPtr: none)
Exchange(held, given, back) == ((held \ {back}) \cup {given}) \ {NullPtr}

\* the content of a word no one has written yet
Uninit == -1

\* mask == ~0u (0xffffffff), so that mask + 1 wraps to 0
AllOnes == -1

ZeroWord == [p |-> 0, lo |-> 0]

\* what a read of indeterminate memory may produce
JunkValues == {1}

NumEntries(m) == m.mask + 1

\* `x & mask`
AndMask(x, m) == IF m.mask = AllOnes THEN x ELSE x % (m.mask + 1)

\* `x & ~mask`, x a 28-bit value
AndNotMask(x, m) == IF m.mask = AllOnes THEN 0 ELSE x - (x % (m.mask + 1))

\* `hash & 0x0fffffffu`
Low28(hash) == hash % HashLimit

\* `scan < 15 ? scan : 15`
ClampScan(scan) == IF scan < ScanClamp THEN scan ELSE ScanClamp

\* `insert | probe << 28u`
MakeEntry(insert, probe) == [p |-> probe, lo |-> insert]

\* `(hash & ~mask) | map->size`: the OR of disjoint bit ranges is their sum;
\* index bits that reach into the hash bits (size > mask) are OR-ed bit by bit
RECURSIVE BitOr(_, _)
BitOr(a, b) ==
    IF a = 0 THEN b
    ELSE IF b = 0 THEN a
    ELSE 2 * BitOr(a \div 2, b \div 2) + (IF a % 2 = 1 \/ b % 2 = 1 THEN 1 ELSE 0)

InsertWord(hash, m) ==
    IF m.size <= m.mask THEN AndNotMask(hash, m) + m.size
    ELSE BitOr(AndNotMask(hash, m), m.size)

\* `((entry ^ ref) & ~mask) == 0` with ref = hash | probe << 28u
EntryMatches(entry, hash, probe, m) ==
    /\ entry.p = probe
    /\ AndNotMask(entry.lo, m) = AndNotMask(hash, m)

\* `entry & mask`
EntryIndex(entry, m) == AndMask(entry.lo, m)

\* `hashes[i]` as the machine reads it: a cell outside the array or one never
\* written holds whatever the memory holds
ReadHash(m, i, junk) ==
    IF i \in DOMAIN m.hashes /\ m.hashes[i] # Uninit THEN m.hashes[i] ELSE junk

\* loops are cut after LoopFuel(m) rounds: a loop that has not left by then
\* never leaves (every loop visits a bucket per round)
LoopFuel(m) == 2 * NumEntries(m) + 2 * ScanClamp + 2

-----------------------------------------------------------------------------
(* rhmap_init, rhmap_reset, rhmap_clear *)

\* entries_ptr is the value of the pointer map->entries, entries the words
\* it points to
ZeroMap ==
    [entries_ptr |-> NullPtr, entries |-> NULL, hashes |-> NULL, mask |-> 0,
     capacity |-> 0, size |-> 0, load_factor |-> 0]

rhmap_init(m) == ZeroMap

\* a reset that keeps the capacity
rhmap_reset_kept(m) ==
    [map |-> [ZeroMap EXCEPT !.capacity = m.capacity], data |-> m.entries_ptr]

\* a reset that hands no pointer back
rhmap_reset_leak(m) == [map |-> ZeroMap, data |-> NullPtr]

rhmap_reset(m) == [map |-> ZeroMap, data |-> m.entries_ptr]

\* a clear that zeroes the entry words and leaves size
rhmap_clear_entries(m) ==
    [m EXCEPT !.entries = [b \in DOMAIN m.entries |-> ZeroWord]]

rhmap_clear(m) ==
    [m EXCEPT !.size = 0,
              !.entries = [b \in DOMAIN m.entries |-> ZeroWord]]

-----------------------------------------------------------------------------
(* rhmap_find *)

\* a call that never returns (its loop never leaves)
Hangs == -1

\* a call that reads or writes through a NULL pointer
Crashes == -2

\* an output the call did not write
Unwritten == -1

RECURSIVE find_loop(_, _, _, _)
find_loop(m, hash, scan, fuel) ==
    LET entry == m.entries[AndMask(hash + scan, m)]
        scan1 == scan + 1
        probe == ClampScan(scan1)
    IN  IF fuel = 0 THEN [ret |-> Hangs, scan |-> scan, index |-> Unwritten]
        ELSE IF EntryMatches(entry, hash, probe, m)
        THEN [ret |-> 1, scan |-> scan1, index |-> EntryIndex(entry, m)]
        ELSE IF entry.p < probe
        THEN [ret |-> 0, scan |-> scan, index |-> Unwritten]
        ELSE find_loop(m, hash, scan1, fuel - 1)

\* one call of rhmap_find on iter = {map, iter_hash, scan}: ret as returned,
\* scan: iter->scan after the call, index: *index after the call
rhmap_find(m, iter_hash, scan) ==
    IF m.mask = AllOnes THEN [ret |-> 0, scan |-> scan, index |-> Unwritten]
    ELSE IF m.entries = NULL THEN [ret |-> Crashes, scan |-> scan, index |-> Unwritten]
    ELSE find_loop(m, Low28(iter_hash), scan, LoopFuel(m))

-----------------------------------------------------------------------------
(* rhmap_insert *)

\* `entries[ix] = insert | probe << 28u; hashes[map->size] = hash;
\*  *index = map->size++; return 0;`
insert_store(m, ix, insert, probe, hash) ==
    [ret |-> 0, scan |-> Unwritten, index |-> m.size,
     map |-> [m EXCEPT !.entries[ix] = MakeEntry(insert, probe),
                       !.hashes = [i \in DOMAIN m.hashes |->
                                     IF i = m.size THEN hash ELSE m.hashes[i]],
                       !.size = m.size + 1]]

\* `slot_scan = entry >> 28u; if (slot_scan == 15) slot_scan = (ix - hashes[ix]) & mask;`
slot_scan_of(m, entry, ix, junk) ==
    IF entry.p = ScanClamp THEN AndMask(ix - ReadHash(m, ix, junk), m) ELSE entry.p

\* the second loop of rhmap_insert: find a place for the displaced element
RECURSIVE insert_displace(_, _, _, _, _, _, _)
insert_displace(m, hash, ix0, scan0, insert, junk, fuel) ==
    LET ix == AndMask(ix0 + 1, m)
        scan == scan0 + 1
        entry == m.entries[ix]
        probe == ClampScan(scan)
        slot_scan == slot_scan_of(m, entry, ix, junk)
    IN  IF fuel = 0 THEN [ret |-> Hangs, scan |-> Unwritten, index |-> Unwritten, map |-> m]
        ELSE IF entry = ZeroWord THEN insert_store(m, ix, insert, probe, hash)
        ELSE IF slot_scan < scan
        THEN insert_displace([m EXCEPT !.entries[ix] = MakeEntry(insert, probe)],
                             hash, ix, slot_scan, entry.lo, junk, fuel - 1)
        ELSE insert_displace(m, hash, ix, scan, insert, junk, fuel - 1)

\* the first loop of rhmap_insert: candidates, an empty slot, or a resident
\* that has scanned less
RECURSIVE insert_probe(_, _, _, _, _, _)
insert_probe(m, hash, scan0, insert, junk, fuel) ==
    LET ix == AndMask(hash + scan0, m)
        scan == scan0 + 1
        entry == m.entries[ix]
        probe == ClampScan(scan)
        slot_scan == slot_scan_of(m, entry, ix, junk)
    IN  IF fuel = 0 THEN [ret |-> Hangs, scan |-> Unwritten, index |-> Unwritten, map |-> m]
        ELSE IF EntryMatches(entry, hash, probe, m)
        THEN [ret |-> 1, scan |-> scan, index |-> EntryIndex(entry, m), map |-> m]
        ELSE IF entry = ZeroWord THEN insert_store(m, ix, insert, probe, hash)
        ELSE IF slot_scan < scan
        THEN insert_displace([m EXCEPT !.entries[ix] = MakeEntry(insert, probe)],
                             hash, ix, slot_scan, entry.lo, junk, fuel - 1)
        ELSE insert_probe(m, hash, scan, insert, junk, fuel - 1)

\* one call of rhmap_insert on iter = {map, iter_hash, scan0}; junk is what a
\* read of indeterminate memory yields. ret as returned, scan: iter->scan
\* when written, index: *index, map: the index afterwards
rhmap_insert(m, iter_hash, scan0, junk) ==
    IF m.entries = NULL
    THEN [ret |-> Crashes, scan |-> Unwritten, index |-> Unwritten, map |-> m]
    ELSE insert_probe(m, Low28(iter_hash), scan0,
                      InsertWord(Low28(iter_hash), m), junk, LoopFuel(m))

\* `while (rhmap_insert(&iter, &index)) { }`: the caller takes no candidate
RECURSIVE insert_new(_, _, _, _)
insert_new(m, iter_hash, scan0, junk) ==
    LET r == rhmap_insert(m, iter_hash, scan0, junk)
    IN  IF r.ret = 1 THEN insert_new(m, iter_hash, r.scan, junk) ELSE r

-----------------------------------------------------------------------------
(* rhmap_grow, rhmap_resize, rhmap_rehash *)

\* `load_factor = map->load_factor; if (load_factor == 0.0f) load_factor = DEFAULT`
LoadFactor(m) ==
    IF m.load_factor = 0 THEN RHMAP_DEFAULT_LOAD_FACTOR ELSE m.load_factor

\* `(uint32_t)((double)num_entries * (double)load_factor)`
CountFor(num_entries, lf) == (num_entries * lf) \div LoadFactorDen

\* `while (size < map->size) { num_entries *= 2; size = ...; }`
RECURSIVE BumpEntries(_, _, _)
BumpEntries(num_entries, lf, size) ==
    IF CountFor(num_entries, lf) < size
    THEN BumpEntries(2 * num_entries, lf, size)
    ELSE num_entries

\* `((size + num_entries) * sizeof(uint32_t) + 7) & ~7u`
AllocSize(size, num_entries) == (((size + num_entries) * 4 + 7) \div 8) * 8

\* `(uint32_t)((double)count / (double)load_factor - 0.5)`: the conversion
\* truncates towards zero
EntriesFor(count, lf) ==
    LET twice == 2 * count * LoadFactorDen - lf
    IN  IF twice < 0 THEN 0 ELSE twice \div (2 * lf)

\* `v--; v |= v >> 1; ... v |= v >> 16; v++;`: the least power of two >= v,
\* and 0 for v = 0 (0 - 1 wraps to 0xffffffff and + 1 wraps back to 0)
RECURSIVE Pow2AtLeast(_, _)
Pow2AtLeast(v, p) == IF p >= v THEN p ELSE Pow2AtLeast(v, 2 * p)

RoundUpPow2(v) == IF v = 0 THEN 0 ELSE Pow2AtLeast(v, 1)

\* a grow that asks for the element count the index already has
rhmap_grow_same(m, initial_size) ==
    [count |-> m.capacity, alloc_size |-> AllocSize(m.capacity, NumEntries(m)),
     num_entries |-> NumEntries(m)]

rhmap_grow(m, initial_size) ==
    LET lf == LoadFactor(m)
        n0 == IF m.mask = AllOnes THEN 0 ELSE m.mask + 1
        n1 == IF n0 = 1
              THEN (IF initial_size # 0 THEN initial_size ELSE RHMAP_DEFAULT_ENTRY_COUNT)
              ELSE n0 * 2
        n2 == IF n1 < MinEntries THEN MinEntries ELSE n1
        num_entries == BumpEntries(n2, lf, m.size)
        size == CountFor(num_entries, lf)
    IN  [count |-> size, alloc_size |-> AllocSize(size, num_entries),
         num_entries |-> num_entries]

rhmap_resize(m, size0) ==
    LET lf == LoadFactor(m)
        v == RoundUpPow2(EntriesFor(size0, lf))
        n2 == IF v < MinEntries THEN MinEntries ELSE v
        num_entries == BumpEntries(n2, lf, m.size)
        size == CountFor(num_entries, lf)
    IN  [count |-> size, alloc_size |-> AllocSize(size, num_entries),
         num_entries |-> num_entries]

\* `for (i = 0; i < old.size; i++) { hash = old.hashes[i]; while (rhmap_insert(..)) { } }`
RECURSIVE rehash_loop(_, _, _, _)
rehash_loop(m, old, i, junk) ==
    IF i >= old.size THEN [ret |-> 0, map |-> m]
    ELSE CHOOSE res \in {IF r.ret # 0 THEN [ret |-> r.ret, map |-> r.map]
                          ELSE rehash_loop(r.map, old, i + 1, junk) :
                          r \in {insert_new(m, ReadHash(old, i, junk), 0, junk)}} : TRUE

\* rhmap_rehash(map, count, data_ptr): data_ptr is a fresh allocation, whose
\* words are indeterminate until written. ret 0: returned; old: the pointer
\* it returns
rhmap_rehash(m, count, data_ptr, junk) ==
    LET num_entries == RoundUpPow2(EntriesFor(count, LoadFactor(m)))
        fresh == [entries_ptr |-> data_ptr,
                  entries |-> [b \in 0 .. num_entries - 1 |-> ZeroWord],
                  hashes |-> [i \in 0 .. count - 1 |-> Uninit],
                  mask |-> num_entries - 1,
                  capacity |-> count,
                  size |-> 0,
                  load_factor |-> m.load_factor]
    IN  CHOOSE res \in {[ret |-> r.ret, map |-> r.map, old |-> m.entries_ptr] :
                         r \in {rehash_loop(fresh, m, 0, junk)}} : TRUE

-----------------------------------------------------------------------------
(* rhmap_remove, rhmap_remove_index *)

\* a shift that moves an entry back one bucket with its scan distance as it was
shifted_entry_kept(m, entry, next, junk) == entry

\* the word rhmap_remove writes one bucket back for the entry of bucket
\* `next`: `entry - 0x10000000u` for an inline scan distance, and for a
\* clamped one `(entry & 0x0fffffffu) | probe << 28u` with
\* probe = min((next - hashes[entry & mask]) & mask, 15)
shifted_entry(m, entry, next, junk) ==
    LET probe == AndMask(next - ReadHash(m, EntryIndex(entry, m), junk), m)
    IN  IF entry.p < ScanClamp
        THEN [p |-> entry.p - 1, lo |-> entry.lo]
        ELSE [p |-> (IF probe > ScanClamp THEN ScanClamp ELSE probe),
              lo |-> entry.lo]

\* the shift-back loop of rhmap_remove, from bucket ix on: the entries array
\* after `entries[ix] = 0` (hang: the loop never leaves)
RECURSIVE remove_shift(_, _, _, _, _)
remove_shift(m, entries, ix, junk, fuel) ==
    LET next == AndMask(ix + 1, m)
        entry == entries[next]
    IN  IF fuel = 0 THEN [hang |-> TRUE, entries |-> entries]
        ELSE IF entry.p < 2
        THEN [hang |-> FALSE, entries |-> [entries EXCEPT ![ix] = ZeroWord]]
        ELSE remove_shift(m, [entries EXCEPT ![ix] = shifted_entry(m, entry, next, junk)],
                          next, junk, fuel - 1)

\* `while ((entries[ix] & mask) != map->size) ix = (ix + 1) & mask;`
RECURSIVE find_last(_, _, _, _, _)
find_last(m, entries, ix, size, fuel) ==
    IF fuel = 0 THEN Hangs
    ELSE IF EntryIndex(entries[ix], m) = size THEN ix
    ELSE find_last(m, entries, AndMask(ix + 1, m), size, fuel - 1)

\* the hash rhmap_remove takes for the element it moves into the hole
\* (size is map->size after the decrement)
moved_hash(m, size, junk) == ReadHash(m, size - 1, junk)

\* one call of rhmap_remove on iter = {map, iter_hash, scan}. With size = 0
\* `map->size--` wraps to 0xffffffff and the call reads hashes[0xfffffffe],
\* far outside the allocation.
rhmap_remove(m, iter_hash, scan, junk) ==
    LET ix == AndMask(iter_hash + scan - 1, m)
        removed_dst == EntryIndex(m.entries[ix], m)
        size == m.size - 1
        shift == remove_shift(m, m.entries, ix, junk, LoopFuel(m))
        shifted == shift.entries
        hash == moved_hash(m, size, junk)
        at == find_last(m, shifted, AndMask(hash, m), size, LoopFuel(m))
        renamed == [shifted EXCEPT ![at] =
                       [p |-> shifted[at].p,
                        lo |-> AndNotMask(shifted[at].lo, m) + removed_dst]]
        none == [ret |-> 0, dst |-> Unwritten, src |-> Unwritten, map |-> m]
    IN  IF m.entries = NULL \/ m.size = 0 THEN [none EXCEPT !.ret = Crashes]
        ELSE IF shift.hang THEN [none EXCEPT !.ret = Hangs]
        ELSE IF removed_dst < size
        THEN IF at = Hangs
             THEN [none EXCEPT !.ret = Hangs,
                               !.map = [m EXCEPT !.size = size, !.entries = shifted,
                                                 !.hashes[removed_dst] = hash]]
             ELSE [ret |-> 1, dst |-> removed_dst, src |-> size,
                   map |-> [m EXCEPT !.size = size, !.entries = renamed,
                                     !.hashes[removed_dst] = hash]]
        ELSE [none EXCEPT !.map = [m EXCEPT !.size = size, !.entries = shifted]]

\* `while ((entries[(hash + scan) & mask] & mask) != index) scan++;`
RECURSIVE find_index(_, _, _, _, _)
find_index(m, hash, scan, index, fuel) ==
    IF fuel = 0 THEN Hangs
    ELSE IF EntryIndex(m.entries[AndMask(hash + scan, m)], m) = index THEN scan
    ELSE find_index(m, hash, scan + 1, index, fuel - 1)

rhmap_remove_index(m, index, junk) ==
    LET hash == ReadHash(m, index, junk)
        scan == find_index(m, hash, 0, index, LoopFuel(m))
    IN  IF m.entries = NULL
        THEN [ret |-> Crashes, dst |-> Unwritten, src |-> Unwritten, map |-> m]
        ELSE IF scan = Hangs
        THEN [ret |-> Hangs, dst |-> Unwritten, src |-> Unwritten, map |-> m]
        ELSE rhmap_remove(m, hash, scan + 1, junk)

-----------------------------------------------------------------------------
(* The caller of the index: the protocol of the header's documentation.    *)
(* The caller keeps one record per element in my_data (here: data, data[i+1]*)
(* being my_data[i]); a record is the 32-bit hash of its key.              *)

\* the 32-bit hashes the caller's keys have: two neighbouring home buckets,
\* one hash with a bit above bit 27 (0x10000001)
Hashes == {0, 268435457}

\* hashes whose home buckets lie two apart
GapHashes == {0, 2}

\* the initial_size arguments the caller passes to rhmap_grow
InitialSizes == {0, 4, 5}

Record(i) == data[i + 1]

\* The words a call may read from indeterminate memory. Only a clamped scan
\* field (which takes ScanClamp colliding elements) or a hash word that was
\* never written makes a call read one; no other call depends on the choice.
Junk(m) ==
    IF \/ m.size >= ScanClamp - 1
       \/ \E b \in DOMAIN m.entries : m.entries[b].p >= ScanClamp
       \/ \E i \in 0 .. m.size - 1 : i \notin DOMAIN m.hashes \/ m.hashes[i] = Uninit
    THEN JunkValues
    ELSE {0}

Returned(ret) == ret \in {0, 1}

Running == Returned(last.ret)

Call(op, arg, ret, index, src) ==
    [op |-> op, arg |-> arg, ret |-> ret, index |-> index, src |-> src]

\* the callers that read the index, each with an rhmap_iter of its own
Readers == {1, 2}

\* the rhmap_iter of a reader that is not in a find sequence; found is the
\* sequence of the indices its calls of rhmap_find have written to *index
NoIter == [active |-> FALSE, hash |-> 0, scan |-> 0, found |-> <<>>]

Init ==
    /\ map = ZeroMap
    /\ data = <<>>
    /\ last = Call("init", 0, 0, Unwritten, Unwritten)
    /\ owned = {}
    /\ iters = [r \in Readers |-> NoIter]

\* rhmap_grow(&map, &count, &alloc_size, initial_size);
\* my_data = realloc(my_data, ...); old = rhmap_rehash(&map, count, malloc(alloc_size));
\* (the caller never asks for more than E entry words)
GrowRehash(initial_size, E) ==
    LET g == rhmap_grow(map, initial_size)
    IN  /\ Running
        /\ UNCHANGED iters
        /\ g.num_entries <= E
        /\ \E junk \in Junk(map) :
              \E r \in {rhmap_rehash(map, g.count, malloc(owned), junk)} :
                  /\ map' = r.map
                  /\ data' = data
                  /\ last' = Call("grow", initial_size, r.ret, g.count, Unwritten)
                  /\ owned' = Exchange(owned, malloc(owned), r.old)

\* rhmap_resize(&map, &count, &alloc_size, size); ...; rhmap_rehash(&map, count, ...)
ResizeRehash(size, E) ==
    LET g == rhmap_resize(map, size)
    IN  /\ Running
        /\ UNCHANGED iters
        /\ g.num_entries <= E
        /\ \E junk \in Junk(map) :
              \E r \in {rhmap_rehash(map, g.count, malloc(owned), junk)} :
                  /\ map' = r.map
                  /\ data' = data
                  /\ last' = Call("resize", size, r.ret, g.count, Unwritten)
                  /\ owned' = Exchange(owned, malloc(owned), r.old)

\* rhmap_iter iter = { &map, hash }; while (rhmap_insert(&iter, &index)) { }
\* my_data[index] = record;   (no candidate holds the caller's key; the
\* caller never holds more than S elements, and its first B keys hash to 0)
Insert(hash, S, B) ==
    /\ Running
    /\ UNCHANGED iters
    /\ map.size < map.capacity
    /\ map.size < S
    /\ map.size < B => hash = 0
    /\ \E junk \in Junk(map) :
          \E r \in {insert_new(map, hash, 0, junk)} :
              /\ map' = r.map
              /\ data' = IF r.ret = 0 THEN Append(data, hash) ELSE data
              /\ last' = Call("insert", hash, r.ret, r.index, Unwritten)
              /\ UNCHANGED owned

\* the first call of rhmap_insert returns a candidate that holds the
\* caller's key: nothing is inserted
InsertFound(hash) ==
    /\ Running
    /\ UNCHANGED iters
    /\ map.size < map.capacity
    /\ \E junk \in Junk(map) :
          \E r \in {rhmap_insert(map, hash, 0, junk)} :
              /\ r.ret = 1
              /\ map' = r.map
              /\ data' = data
              /\ last' = Call("insert", hash, r.ret, r.index, Unwritten)
              /\ UNCHANGED owned

\* `while (rhmap_find(&iter, &index)) { if (index is the wanted one) break; }`:
\* the cursor after the find that yields `index`, ret 0 when none does
RECURSIVE find_value(_, _, _, _)
find_value(m, hash, scan, index) ==
    LET f == rhmap_find(m, hash, scan)
    IN  IF f.ret = 1 /\ f.index # index THEN find_value(m, hash, f.scan, index) ELSE f

\* my_data[dst] = my_data[src] when rhmap_remove returned 1; the record past
\* the new size is dead
MoveRecord(d, r) ==
    LET moved == IF r.ret = 1 /\ r.dst + 1 \in DOMAIN d /\ r.src + 1 \in DOMAIN d
                 THEN [d EXCEPT ![r.dst + 1] = d[r.src + 1]]
                 ELSE d
    IN  IF Returned(r.ret) THEN SubSeq(moved, 1, r.map.size) ELSE d

\* the caller finds its element i with rhmap_find and calls rhmap_remove
Remove(i) ==
    LET f == find_value(map, Record(i), 0, i)
    IN  /\ Running
        /\ UNCHANGED iters
        /\ i < map.size
        /\ f.ret = 1
        /\ \E junk \in Junk(map) :
              \E r \in {rhmap_remove(map, Record(i), f.scan, junk)} :
                  /\ map' = r.map
                  /\ data' = MoveRecord(data, r)
                  /\ last' = Call("remove", i, r.ret, r.dst, r.src)
                  /\ UNCHANGED owned

\* rhmap_remove_index(&map, i, &dst, &src) on a live element index
RemoveIndex(i) ==
    /\ Running
    /\ UNCHANGED iters
    /\ i < map.size
    /\ \E junk \in Junk(map) :
          \E r \in {rhmap_remove_index(map, i, junk)} :
              /\ map' = r.map
              /\ data' = MoveRecord(data, r)
              /\ last' = Call("remove_index", i, r.ret, r.dst, r.src)
              /\ UNCHANGED owned

\* rhmap_clear(&map)
Clear ==
    /\ Running
    /\ UNCHANGED iters
    /\ UNCHANGED owned
    /\ IF map.entries = NULL
       THEN /\ UNCHANGED <<map, data>>
            /\ last' = Call("clear", 0, Crashes, Unwritten, Unwritten)
       ELSE /\ map' = rhmap_clear(map)
            /\ data' = <<>>
            /\ last' = Call("clear", 0, 0, Unwritten, Unwritten)

\* ptr = rhmap_reset(&map); free(ptr);  (index: ptr)
Reset ==
    /\ Running
    /\ UNCHANGED iters
    /\ map' = rhmap_reset(map).map
    /\ data' = <<>>
    /\ last' = Call("reset", 0, 0, rhmap_reset(map).data, Unwritten)
    /\ owned' = Exchange(owned, NullPtr, rhmap_reset(map).data)

\* the caller's steps: its keys hash into H, the first B of them to 0, it
\* holds at most S elements in at most E entry words, and it removes the
\* elements at the indices in R
Step(H, S, E, R, B) ==
    \/ \E initial_size \in InitialSizes : GrowRehash(initial_size, E)
    \/ \E size \in {0, S} : ResizeRehash(size, E)
    \/ \E hash \in H : Insert(hash, S, B)
    \/ \E hash \in H : InsertFound(hash)
    \/ \E i \in R : Remove(i)
    \/ \E i \in R : RemoveIndex(i)
    \/ Clear
    \/ Reset

Next == Step(Hashes, MaxSize, MaxEntries, 0 .. MaxSize - 1, 0)

Spec == Init /\ [][Next]_vars

NextGap == Step(GapHashes, MaxSize, MaxEntries, 0 .. MaxSize - 1, 0)

SpecGap == Init /\ [][NextGap]_vars

\* A caller whose first ScanClamp - 1 keys share one home bucket, so that scan
\* distances reach the clamp
ChainHashes == {0, 13}

ChainBase == ScanClamp - 1

ChainSize == ScanClamp + MaxSize - 1

ChainEntries == 8 * MaxEntries

NextChain == Step(ChainHashes, ChainSize, ChainEntries, {0, ChainSize - 1}, ChainBase)

SpecChain == Init /\ [][NextChain]_vars

\* The load factors a caller sets: 1.0 and 0.5 (numerators over 2^24)
LoadFactors == {LoadFactorDen, LoadFactorDen \div 2}

\* map.load_factor = load_factor;  (the field is the caller's to set; the
\* sizers take it into account at the next grow or resize)
SetLoadFactor(load_factor) ==
    /\ Running
    /\ UNCHANGED iters
    /\ map.load_factor # load_factor
    /\ map' = [map EXCEPT !.load_factor = load_factor]
    /\ last' = Call("load_factor", load_factor, 0, Unwritten, Unwritten)
    /\ UNCHANGED <<data, owned>>

\* a caller that also sets the load factor
NextLoad ==
    \/ Next
    \/ \E load_factor \in LoadFactors : SetLoadFactor(load_factor)

SpecLoad == Init /\ [][NextLoad]_vars

-----------------------------------------------------------------------------
(* hash_map<int, int>: the facade of extra/hash_map.h. imp is the variable  *)
(* map; data holds the pairs, data[i + 1] being data[i] of the code. The   *)
(* cells from data[size()] on are those no one has written, or whose pair   *)
(* was erased or moved away: a read of one yields an indeterminate key.     *)

\* uint32_t default_hash(int i) { return i; }
default_hash(i) == i

\* the int keys and values of the facade's callers: two keys that share the
\* home bucket of a 4-entry index, one neighbour
Keys == {0, 1, 4}

Values == {0, 1}

\* the sizes the callers pass to reserve
ReserveSizes == {1, 4}

map_pair(key, value) == [key |-> key, value |-> value]

\* `data[index].key`
KeyAt(d, index, junk) == IF index + 1 \in DOMAIN d THEN d[index + 1].key ELSE junk

\* `new (&data[index]) pair(...)`
StorePair(d, index, p) ==
    IF index + 1 \in DOMAIN d THEN [d EXCEPT ![index + 1] = p] ELSE Append(d, p)

\* `data[dst] = data[src]`
CopyPair(d, dst, src) ==
    IF dst + 1 \in DOMAIN d /\ src + 1 \in DOMAIN d
    THEN [d EXCEPT ![dst + 1] = d[src + 1]]
    ELSE d

\* imp_rehash(count, alloc_size): the first imp.size pairs move to the new
\* array, then rhmap_rehash
imp_rehash(m, d, count, alloc, junk) ==
    LET kept == IF m.size <= Len(d) THEN m.size ELSE Len(d)
    IN  CHOOSE res \in {[ret |-> r.ret, map |-> r.map, data |-> SubSeq(d, 1, kept),
                          given |-> alloc, old |-> r.old] :
                         r \in {rhmap_rehash(m, count, alloc, junk)}} : TRUE

\* `while (rhmap_find(&iter, &index)) { if (data[index].key == key) return &data[index]; }
\*  return NULL;`  ret 1: a pair, at data[index]; ret 0: NULL
RECURSIVE find(_, _, _, _, _)
find(m, d, key, scan, junk) ==
    LET f == rhmap_find(m, default_hash(key), scan)
    IN  IF scan > LoopFuel(m) THEN [f EXCEPT !.ret = Hangs]
        ELSE IF f.ret = 1 /\ KeyAt(d, f.index, junk) # key
        THEN find(m, d, key, f.scan, junk)
        ELSE f

\* the loop of imp_insert: inserted is its return value
RECURSIVE imp_insert_loop(_, _, _, _, _)
imp_insert_loop(m, d, key, scan, junk) ==
    LET r == rhmap_insert(m, default_hash(key), scan, junk)
    IN  IF r.ret = 1
        THEN IF KeyAt(d, r.index, junk) = key
             THEN [ret |-> 0, inserted |-> FALSE, index |-> r.index, map |-> m, data |-> d]
             ELSE imp_insert_loop(m, d, key, r.scan, junk)
        ELSE [ret |-> r.ret, inserted |-> r.ret = 0, index |-> r.index,
              map |-> r.map, data |-> d]

\* imp_insert(key, index): `if (imp.size >= imp.capacity) { rhmap_grow(.., 0);
\* imp_rehash(..); }`: the map and the pairs the loop then works on
imp_grow(m, d, alloc, junk) ==
    IF m.size >= m.capacity
    THEN imp_rehash(m, d, rhmap_grow(m, 0).count, alloc, junk)
    ELSE [ret |-> 0, map |-> m, data |-> d, given |-> NullPtr, old |-> NullPtr]

\* imp_insert(key, index): the grow and the loop
imp_insert(m, d, key, alloc, junk) ==
    CHOOSE res \in {IF grown.ret # 0
                     THEN [ret |-> grown.ret, inserted |-> FALSE, index |-> Unwritten,
                           map |-> grown.map, data |-> grown.data]
                     ELSE imp_insert_loop(grown.map, grown.data, key, 0, junk) :
                     grown \in {imp_grow(m, d, alloc, junk)}} : TRUE

\* the allocations the map holds after imp_insert: imp_rehash frees the one
\* rhmap_rehash returns
imp_insert_owned(m, d, held, junk) ==
    LET grown == imp_grow(m, d, malloc(held), junk)
    IN  Exchange(held, grown.given, grown.old)

\* the entry words imp_insert asks for
imp_insert_entries(m) ==
    IF m.size >= m.capacity THEN rhmap_grow(m, 0).num_entries ELSE NumEntries(m)

\* erase_key and erase: `if (rhmap_remove(..)) data[dst] = data[src];`, the
\* pairs from the new size on are dead
erase_pair(d, r) ==
    LET copied == IF r.ret = 1 THEN CopyPair(d, r.dst, r.src) ELSE d
    IN  IF Returned(r.ret) /\ r.map.size <= Len(copied)
        THEN SubSeq(copied, 1, r.map.size)
        ELSE copied

\* The words a call of the facade may read from indeterminate memory: those
\* of Junk, and the key of a cell of data past the live pairs when an entry
\* indexes one
MapJunk(m, d) ==
    IF \E b \in DOMAIN m.entries :
          m.entries[b] # ZeroWord /\ EntryIndex(m.entries[b], m) >= Len(d)
    THEN JunkValues
    ELSE Junk(m)

\* what the last call of the facade was: ret 0 or 1 as the call returned
\* (for erase_key: its bool), Hangs or Crashes when it did not
MapCall(op, key, value, ret) ==
    [op |-> op, key |-> key, value |-> value, ret |-> ret]

\* m[key]
OperatorIndex(key) ==
    /\ Running
    /\ UNCHANGED iters
    /\ map.size < MaxKeys
    /\ imp_insert_entries(map) <= MapEntries
    /\ \E junk \in MapJunk(map, data) :
          \E r \in {imp_insert(map, data, key, malloc(owned), junk)} :
              /\ map' = r.map
              /\ data' = IF r.inserted
                         THEN StorePair(r.data, r.index, map_pair(key, 0))
                         ELSE r.data
              /\ last' = MapCall("operator[]", key, 0, r.ret)
              /\ owned' = imp_insert_owned(map, data, owned, junk)

\* m.insert(key, value)
MapInsert(key, value) ==
    /\ Running
    /\ UNCHANGED iters
    /\ map.size < MaxKeys
    /\ imp_insert_entries(map) <= MapEntries
    /\ \E junk \in MapJunk(map, data) :
          \E r \in {imp_insert(map, data, key, malloc(owned), junk)} :
              /\ map' = r.map
              /\ data' = IF r.inserted
                         THEN StorePair(r.data, r.index, map_pair(key, value))
                         ELSE r.data
              /\ last' = MapCall("insert", key, value, r.ret)
              /\ owned' = imp_insert_owned(map, data, owned, junk)

\* m.insert_or_assign(key, value)
InsertOrAssign(key, value) ==
    /\ Running
    /\ UNCHANGED iters
    /\ map.size < MaxKeys
    /\ imp_insert_entries(map) <= MapEntries
    /\ \E junk \in MapJunk(map, data) :
          \E r \in {imp_insert(map, data, key, malloc(owned), junk)} :
              /\ map' = r.map
              /\ data' = IF Returned(r.ret)
                         THEN StorePair(r.data, r.index, map_pair(key, value))
                         ELSE r.data
              /\ last' = MapCall("insert_or_assign", key, value, r.ret)
              /\ owned' = imp_insert_owned(map, data, owned, junk)

\* m.erase_key(key)
EraseKey(key) ==
    /\ Running
    /\ UNCHANGED iters
    /\ UNCHANGED owned
    /\ \E junk \in MapJunk(map, data) :
          LET f == find(map, data, key, 0, junk)
              r == rhmap_remove(map, default_hash(key), f.scan, junk)
          IN  IF f.ret = 1
              THEN /\ map' = r.map
                   /\ data' = erase_pair(data, r)
                   /\ last' = MapCall("erase_key", key, 0,
                                      IF Returned(r.ret) THEN 1 ELSE r.ret)
              ELSE /\ UNCHANGED <<map, data>>
                   /\ last' = MapCall("erase_key", key, 0, f.ret)

\* m.erase(&data[i]) on a live pair; the call's key is the pair's
Erase(i) ==
    /\ Running
    /\ UNCHANGED iters
    /\ i < map.size
    /\ i + 1 \in DOMAIN data
    /\ \E junk \in MapJunk(map, data) :
          \E r \in {rhmap_remove_index(map, i, junk)} :
              /\ map' = r.map
              /\ data' = erase_pair(data, r)
              /\ last' = MapCall("erase", data[i + 1].key, 0,
                                 IF Returned(r.ret) THEN 0 ELSE r.ret)
              /\ UNCHANGED owned

\* m.reserve(size)
Reserve(size) ==
    LET g == rhmap_resize(map, size)
    IN  /\ Running
        /\ UNCHANGED iters
        /\ IF size > map.capacity
           THEN /\ g.num_entries <= MapEntries
                /\ \E junk \in MapJunk(map, data) :
                      \E r \in {imp_rehash(map, data, g.count, malloc(owned), junk)} :
                          /\ map' = r.map
                          /\ data' = r.data
                          /\ last' = MapCall("reserve", size, 0, r.ret)
                          /\ owned' = Exchange(owned, r.given, r.old)
           ELSE /\ UNCHANGED <<map, data, owned>>
                /\ last' = MapCall("reserve", size, 0, 0)

NextMap ==
    \/ \E key \in Keys : OperatorIndex(key)
    \/ \E key \in Keys, value \in Values : MapInsert(key, value)
    \/ \E key \in Keys, value \in Values : InsertOrAssign(key, value)
    \/ \E key \in Keys : EraseKey(key)
    \/ \E i \in 0 .. MaxKeys - 1 : Erase(i)
    \/ \E size \in ReserveSizes : Reserve(size)

SpecMap == Init /\ [][NextMap]_vars

-----------------------------------------------------------------------------
(* Views of the index *)

\* the buckets that hold an entry
Occupied(m) == {b \in DOMAIN m.entries : m.entries[b] # ZeroWord}

\* the buckets whose entry decodes to element index i
BucketsOf(m, i) == {b \in Occupied(m) : EntryIndex(m.entries[b], m) = i}

\* the probe distance of the entry in bucket b, recomputed from the hash
\* stored for the element it indexes (1 = home bucket)
TrueDistance(m, b) ==
    AndMask(b - ReadHash(m, EntryIndex(m.entries[b], m), 0), m) + 1

\* a find sequence for hash, started with scan = 0, yields index i
Finds(m, hash, i) == find_value(m, hash, 0, i).ret = 1

-----------------------------------------------------------------------------
(* Claims *)

\* C1: after every operation, for every live element index i < size a find
\* sequence for hashes[i] started with scan = 0 yields index i.
C1_LiveFindable ==
    Running => \A i \in 0 .. map.size - 1 : Finds(map, map.hashes[i], i)

\* C2: after every operation, for every i < size, hashes[i] equals the hash
\* with which the element the caller now keeps at index i was inserted.
C2_StoredHash ==
    Running => \A i \in 0 .. map.size - 1 :
                  i \in DOMAIN map.hashes /\ map.hashes[i] = Record(i)

\* C3: after every operation the indices decoded from the nonzero entry
\* words are exactly 0 .. size-1, each in exactly one bucket.
C3_CompactIndices ==
    Running =>
        /\ \A i \in 0 .. map.size - 1 : Cardinality(BucketsOf(map, i)) = 1
        /\ \A b \in Occupied(map) : EntryIndex(map.entries[b], map) < map.size

\* C4: after every operation size equals the number of nonzero entry words.
C4_SizeIsOccupied ==
    Running => map.size = Cardinality(Occupied(map))

\* C6: after every operation the scan field of every live element's entry is
\* its true probe distance when that is <= 14, or it is 15 and
\* (b - hashes[i]) mod N >= 15.
C6_ScanField ==
    Running => \A b \in Occupied(map) :
        LET d == TrueDistance(map, b)
        IN  EntryIndex(map.entries[b], map) < map.size =>
               \/ d <= ScanClamp - 1 /\ map.entries[b].p = d
               \/ map.entries[b].p = ScanClamp /\ d - 1 >= ScanClamp


\* the scan field of the entry in bucket b
ScanField(m, b) == m.entries[b].p

\* the bucket before b
Before(m, b) == AndMask(b + m.mask, m)

C8_InsertEffect ==
    [][last'.op = "insert" =>
          \/ /\ last'.ret = 1
             /\ map' = map
          \/ /\ last'.ret = 0
             /\ map'.size = map.size + 1
             /\ last'.index = map.size
             /\ map'.hashes[last'.index] = last'.arg]_vars

\* C9: rhmap_remove, called after rhmap_find yielded the candidate r,
\* decrements size by one and returns 1 with *dst = r and *src = the new size
\* exactly when r < the new size, else returns 0 and writes neither output;
\* afterwards no entry decodes to the index of the former last slot.
C9_RemoveEffect ==
    [][last'.op = "remove" =>
          /\ Returned(last'.ret)
          /\ map'.size = map.size - 1
          /\ (last'.ret = 1) = (last'.arg < map'.size)
          /\ last'.ret = 1 => last'.index = last'.arg /\ last'.src = map'.size
          /\ last'.ret = 0 => last'.index = Unwritten /\ last'.src = Unwritten
          /\ BucketsOf(map', map'.size) = {}]_vars

\* C10: rhmap_rehash with a count from rhmap_grow or rhmap_resize keeps the
\* contents: size and hashes[i] for i < size are as before, and a find
\* sequence for hashes[i] yields i.
C10_RehashKeeps ==
    [][last'.op \in {"grow", "resize"} =>
          /\ last'.ret = 0
          /\ map'.size = map.size
          /\ \A i \in 0 .. map.size - 1 :
                /\ map'.hashes[i] = map.hashes[i]
                /\ Finds(map', map'.hashes[i], i)]_vars

\* what find(key) yields: ret 1 and the value of the pair, ret 0 for NULL,
\* Hangs or Crashes when it does not return
Lookup(m, d, key) ==
    LET f == find(m, d, key, 0, 0)
    IN  [ret |-> f.ret,
         value |-> IF f.ret = 1 /\ f.index + 1 \in DOMAIN d
                   THEN d[f.index + 1].value ELSE Unwritten]

Holds(value) == [ret |-> 1, value |-> value]

Absent == [ret |-> 0, value |-> Unwritten]

\* what find(key) yields after the call `call`, when it yielded `before`
\* before it, in an abstract key -> value map
AbstractLookup(call, key, before) ==
    IF key # call.key \/ call.op = "reserve" THEN before
    ELSE IF call.op = "operator[]" THEN (IF before.ret = 1 THEN before ELSE Holds(0))
    ELSE IF call.op = "insert" THEN (IF before.ret = 1 THEN before ELSE Holds(call.value))
    ELSE IF call.op = "insert_or_assign" THEN Holds(call.value)
    ELSE Absent

\* C7: the facade behaves as an abstract key -> value map. Every call of
\* operator[], insert, insert_or_assign, erase_key, erase and reserve on a
\* map that has storage returns, changes what find yields for each key as
\* the call changes an abstract map (so find yields the most recently stored
\* value of every present key and NULL for every other key), and leaves
\* size() the number of keys find yields a pair for.
C7_AbstractMap ==
    [][map.entries # NULL =>
          /\ Returned(last'.ret)
          /\ \A key \in Keys :
                Lookup(map', data', key) = AbstractLookup(last', key, Lookup(map, data, key))
          /\ map'.size = Cardinality({key \in Keys : Lookup(map', data', key).ret = 1})]_vars

\* the index has no storage: the zero state
NoStorage(m) == m.entries = NULL /\ m.capacity = 0

\* C11: on an index that has no storage (zero-initialised, after rhmap_init
\* or after rhmap_reset) rhmap_find returns 0 for every hash, reading no
\* entry word.
C11_NoStorageFind ==
    NoStorage(map) => \A hash \in Hashes : rhmap_find(map, hash, 0).ret = 0

\* what `rhmap_grow(&map, &count, &alloc_size, initial_size);
\* rhmap_rehash(&map, count, malloc(alloc_size));` makes of the index m
grow_rehash(m, initial_size, junk) ==
    rhmap_rehash(m, rhmap_grow(m, initial_size).count, malloc({m.entries_ptr}), junk)

\* C12: whenever size == capacity (the zero state included), rhmap_grow
\* followed by rhmap_rehash with the count it reports returns and leaves
\* size < capacity, with the size as it was: the insert that follows has
\* its precondition. (Every state the callers reach with the default load
\* factor.)
C12_GrowMakesRoom ==
    (Running /\ map.size = map.capacity) =>
        \A initial_size \in InitialSizes : \A junk \in Junk(map) :
            LET r == grow_rehash(map, initial_size, junk)
            IN  /\ r.ret = 0
                /\ r.map.size = map.size
                /\ r.map.size < r.map.capacity

\* C12 witness: a full index that holds elements, which the grow and rehash
\* leave with room
C12_Witness ==
    /\ Running
    /\ map.size = map.capacity
    /\ map.size = MaxSize
    /\ grow_rehash(map, 0, 0).map.capacity > map.size
    /\ grow_rehash(map, 0, 0).map.size = map.size

\* one call of rhmap_find on iter = {map, hash, scan} returns after reading
\* at most NumEntries(m) entry words
FindReturnsWithin(m, hash, scan) ==
    find_loop(m, Low28(hash), scan, NumEntries(m)).ret # Hangs

\* every call of the find sequence for hash, resumed from scan, does
RECURSIVE FindCallsReturnWithin(_, _, _)
FindCallsReturnWithin(m, hash, scan) ==
    LET f == rhmap_find(m, hash, scan)
    IN  /\ scan <= LoopFuel(m)
        /\ FindReturnsWithin(m, hash, scan)
        /\ f.ret = 1 => FindCallsReturnWithin(m, hash, f.scan)

\* one call of rhmap_insert on iter = {map, hash, scan} returns after
\* visiting at most NumEntries(m) buckets in its two loops together
InsertReturnsWithin(m, hash, scan, junk) ==
    insert_probe(m, Low28(hash), scan, InsertWord(Low28(hash), m), junk,
                 NumEntries(m)).ret # Hangs

\* every call of the insert sequence for hash, resumed from scan, does
RECURSIVE InsertCallsReturnWithin(_, _, _, _)
InsertCallsReturnWithin(m, hash, scan, junk) ==
    LET r == rhmap_insert(m, hash, scan, junk)
    IN  /\ scan <= LoopFuel(m)
        /\ InsertReturnsWithin(m, hash, scan, junk)
        /\ r.ret = 1 => InsertCallsReturnWithin(m, hash, r.scan, junk)

\* C13: on an index that has storage, every call of rhmap_find, and every
\* call of rhmap_insert made with size < capacity, returns after visiting
\* at most N = mask + 1 buckets (so the displacement loop of rhmap_insert
\* reaches an empty bucket).
C13_BoundedProbe ==
    (Running /\ map.entries # NULL) =>
        \A hash \in Hashes :
            /\ FindCallsReturnWithin(map, hash, 0)
            /\ map.size < map.capacity =>
                  \A junk \in Junk(map) : InsertCallsReturnWithin(map, hash, 0, junk)

\* the allocation the index holds: the one map->entries points to
HeldBy(m) == {m.entries_ptr} \ {NullPtr}

\* C14: allocation ownership. The pointers handed to rhmap_rehash and not
\* yet handed back are, after every operation, exactly the one allocation
\* map.entries points to (so each is handed back once, by the next
\* rhmap_rehash or by rhmap_reset, and none twice); a rehash leaves the
\* index on the pointer it was given, a reset on NULL, and no other
\* operation changes map.entries.
C14_Ownership ==
    [][/\ owned' = HeldBy(map')
       /\ last'.op \in {"grow", "resize"} =>
             map'.entries_ptr # NullPtr /\ map'.entries_ptr \notin owned
       /\ last'.op = "reset" => map'.entries_ptr = NullPtr
       /\ last'.op \notin {"grow", "resize", "reset"} =>
             map'.entries_ptr = map.entries_ptr]_vars

\* C14 witness: a second rehash has taken the second allocation and handed
\* the first one back
C14_Witness ==
    /\ last.op \in {"grow", "resize"}
    /\ map.entries_ptr = malloc({malloc({})})
    /\ owned = {map.entries_ptr}

\* C15: rhmap_reset returns the current entries pointer and leaves the state
\* field for field as rhmap_init leaves it, all zero (entries = hashes =
\* NULL, mask = capacity = size = 0, load_factor = 0); a grow and rehash
\* after it gives what a grow and rehash of a fresh zero index gives.
C15_ResetIsInit ==
    [][last'.op = "reset" =>
          /\ last'.index = map.entries_ptr
          /\ map' = rhmap_init(map)
          /\ map'.entries_ptr = NullPtr /\ map'.entries = NULL /\ map'.hashes = NULL
          /\ map'.mask = 0 /\ map'.capacity = 0 /\ map'.size = 0
          /\ map'.load_factor = 0
          /\ \A initial_size \in InitialSizes :
                grow_rehash(map', initial_size, 0) = grow_rehash(ZeroMap, initial_size, 0)]_vars

\* C15 witness: a reset of an index that held an allocation and elements
\* has handed the allocation back
C15_Witness ==
    /\ last.op = "reset"
    /\ last.index # NullPtr
    /\ map = ZeroMap

\* n further inserts, of any hashes, each return 0 with the next index
RECURSIVE InsertsSucceed(_, _)
InsertsSucceed(m, n) ==
    \/ n = 0
    \/ \A hash \in Hashes : \A junk \in Junk(m) :
          \E r \in {insert_new(m, hash, 0, junk)} :
              /\ r.ret = 0
              /\ r.index = m.size
              /\ r.map.size = m.size + 1
              /\ InsertsSucceed(r.map, n - 1)

IsPow2(n) == n > 0 /\ RoundUpPow2(n) = n

\* C17: in every state reached by rhmap_rehash with a count that rhmap_grow
\* (for any initial_size) or rhmap_resize produced, the entry count
\* N = mask + 1 is a power of two >= 4 and size <= capacity <= N.
C17_EntryCount ==
    (Running /\ last.op \in {"grow", "resize"}) =>
        /\ map.mask # AllOnes
        /\ IsPow2(NumEntries(map))
        /\ NumEntries(map) >= MinEntries
        /\ map.size <= map.capacity
        /\ map.capacity <= NumEntries(map)

\* the sizes a caller asks rhmap_resize for
DesiredSizes == 0 .. MaxEntries

\* C18: rhmap_resize(map, &count, &alloc_size, desired) reports an element
\* count that is at least desired and at least map.size, also when
\* load_factor was changed since the last rehash.
C18_ResizeCount ==
    Running => \A desired \in DesiredSizes :
        /\ rhmap_resize(map, desired).count >= desired
        /\ rhmap_resize(map, desired).count >= map.size

\* n bytes rounded up to a multiple of 16
AlignUp16(n) == ((n + 15) \div 16) * 16

\* what a sizer reported is (N + count) * 4 bytes rounded up to 16
Aligned16(g) ==
    /\ g.alloc_size % 16 = 0
    /\ g.alloc_size = AlignUp16((g.num_entries + g.count) * 4)

\* C19: the alloc_size that rhmap_grow and rhmap_resize report is always a
\* multiple of 16 bytes: (N + capacity) * 4 rounded up to 16.
C19_AllocAligned ==
    Running =>
        /\ \A initial_size \in InitialSizes : Aligned16(rhmap_grow(map, initial_size))
        /\ \A desired \in DesiredSizes : Aligned16(rhmap_resize(map, desired))

\* C20: with load_factor unset (0) rhmap_grow, rhmap_resize and rhmap_rehash
\* use the default load factor 0.75: for a power of two N of entry words,
\* the count the sizers report is floor(N * 0.75), and the rehash sets up N
\* entry words for it.
C20_DefaultLoadFactor ==
    (Running /\ map.load_factor = 0) =>
        /\ \A initial_size \in InitialSizes :
              LET g == rhmap_grow(map, initial_size)
              IN  IsPow2(g.num_entries) =>
                     /\ g.count = (g.num_entries * 3) \div 4
                     /\ NumEntries(grow_rehash(map, initial_size, 0).map) = g.num_entries
        /\ \A desired \in DesiredSizes :
              rhmap_resize(map, desired).count
                  = (rhmap_resize(map, desired).num_entries * 3) \div 4

\* C21: immediately after rhmap_insert returns 0 for the caller's 32-bit
\* hash h, hashes[*index] holds the full word h, bits 28..31 included.
C21_FullHashStored ==
    [][(last'.op = "insert" /\ last'.ret = 0) =>
          /\ last'.index \in DOMAIN map'.hashes
          /\ map'.hashes[last'.index] = last'.arg]_vars

-----------------------------------------------------------------------------
(* rh::hash_map<int, int> of rh_hash.h and rh_hash.cpp. It drives the index *)
(* through the inline primitives of a later rhmap.h (find, insert, remove,  *)
(* find_value, update_value with a hash and a scan cursor in place of the   *)
(* iterator); that header is not in the tree, and these primitives are      *)
(* modelled from the design document, §4.2 to §4.5.                         *)

HalfWord == 65536

\* a ^ b on naturals
RECURSIVE XorBits(_, _)
XorBits(a, b) ==
    IF a = 0 THEN b
    ELSE IF b = 0 THEN a
    ELSE 2 * XorBits(a \div 2, b \div 2) + ((a + b) % 2)

\* the 32-bit product of two 16-bit halves, as halves
Mul16(a, b) ==
    LET p0 == (a % 256) * b
        p1 == (a \div 256) * b
        low == p0 + (p1 % 256) * 256
    IN  [hi |-> (p1 \div 256) + (low \div HalfWord), lo |-> low % HalfWord]

\* `v *= c` on uint32_t, v and c as 16-bit halves
Mul32(v, c) ==
    [hi |-> (Mul16(v.lo, c.lo).hi + Mul16(v.lo, c.hi).lo + Mul16(v.hi, c.lo).lo)
                % HalfWord,
     lo |-> Mul16(v.lo, c.lo).lo]

\* `v ^= v >> 16`
XorShift16(v) == [hi |-> v.hi, lo |-> XorBits(v.lo, v.hi)]

\* `v ^= v >> 15`
XorShift15(v) ==
    LET s == 2 * v.hi + (v.lo \div 32768)
    IN  [hi |-> XorBits(v.hi, s \div HalfWord), lo |-> XorBits(v.lo, s % HalfWord)]

\* uint32_t hash(uint32_t v), as 16-bit halves
hash_halves(v) ==
    LET v1 == XorShift16([hi |-> v \div HalfWord, lo |-> v % HalfWord])
        v2 == Mul32(v1, [hi |-> 32747, lo |-> 13613])
        v3 == XorShift15(v2)
        v4 == Mul32(v3, [hi |-> 33900, lo |-> 42635])
    IN  XorShift16(v4)

\* default_hash<int>: `(uint32_t)hash(t)`
rh_hash(key) == hash_halves(key).hi * HalfWord + hash_halves(key).lo

\* the int keys of the callers: 0 and 1 hash to the same home bucket of a
\* 16-entry index, 11 to another; their hashes are below 2^31
RhKeys == {0, 1, 11}

\* sizeof(kv_pair<int, int>)
TypeSize == 8

\* the default load factor of the later header, 0.75, over LoadFactorDen
RhLoadFactor == 12582912

rh_load_factor(m) == IF m.load_factor = 0 THEN RhLoadFactor ELSE m.load_factor

rh_entries(m) == IF m.entries = NULL THEN 0 ELSE NumEntries(m)

Max(a, b) == IF a >= b THEN a ELSE b

\* rhmap_grow_inline(&map, &count, &alloc_size, min_size, 0): the sizer with
\* desired_size = max(size + 1, 2 * capacity of the current table, min_size)
rhmap_grow_inline(m, min_size) ==
    LET lf == rh_load_factor(m)
        desired == Max(Max(m.size + 1, 2 * CountFor(rh_entries(m), lf)), min_size)
        n0 == RoundUpPow2((desired * LoadFactorDen + lf - 1) \div lf)
        n1 == IF n0 < MinEntries THEN MinEntries ELSE n0
        num_entries == BumpEntries(n1, lf, m.size)
        count == CountFor(num_entries, lf)
    IN  [count |-> count, alloc_size |-> AlignUp16((num_entries + count) * 4),
         num_entries |-> num_entries]

\* rhmap_rehash_inline(&map, count, alloc_size, new_data): a zeroed table of
\* num_entries buckets, the old elements inserted again in index order
rhmap_rehash_inline(m, count, num_entries, data_ptr) ==
    LET fresh == [entries_ptr |-> data_ptr,
                  entries |-> [b \in 0 .. num_entries - 1 |-> ZeroWord],
                  hashes |-> [i \in 0 .. count - 1 |-> Uninit],
                  mask |-> num_entries - 1,
                  capacity |-> count,
                  size |-> 0,
                  load_factor |-> m.load_factor]
        filled == rehash_loop(fresh, m, 0, 0).map
    IN  [filled EXCEPT !.hashes = [i \in DOMAIN filled.hashes |->
                                      IF i < m.size THEN m.hashes[i] ELSE Uninit]]

\* the walk of rhmap_find_inline from bucket (hash + scan) on: scan counts
\* every bucket visited, the one that ends the walk included
RECURSIVE find_inline_loop(_, _, _, _)
find_inline_loop(m, hash, scan, fuel) ==
    LET entry == m.entries[AndMask(hash + scan, m)]
        scan1 == scan + 1
        probe == ClampScan(scan1)
    IN  IF fuel = 0 THEN [ret |-> Hangs, scan |-> scan, index |-> Unwritten]
        ELSE IF EntryMatches(entry, hash, probe, m)
        THEN [ret |-> 1, scan |-> scan1, index |-> EntryIndex(entry, m)]
        ELSE IF entry.p < probe
        THEN [ret |-> 0, scan |-> scan1, index |-> Unwritten]
        ELSE find_inline_loop(m, hash, scan1, fuel - 1)

\* rhmap_find_inline(&map, hash, &scan, &index)
rhmap_find_inline(m, hash, scan) ==
    IF m.capacity = 0 THEN [ret |-> 0, scan |-> scan, index |-> Unwritten]
    ELSE find_inline_loop(m, Low28(hash), scan, LoopFuel(m))

\* rhmap_insert_inline(&map, hash, scan, index) after the find that returned
\* false at `scan`: the entry goes to bucket (hash + scan - 1) with distance
\* scan, displacing residents of a smaller distance; hashes[index] = hash
rhmap_insert_inline(m, hash, scan, index) ==
    LET r == insert_probe(m, Low28(hash), scan - 1, InsertWord(Low28(hash), m),
                          0, LoopFuel(m))
    IN  [r.map EXCEPT !.hashes[index] = hash]

\* rhmap_find_value_inline(&map, hash, &scan, index): the cursor one past the
\* candidate that decodes to index, or where the candidates ended
RECURSIVE rhmap_find_value_inline(_, _, _, _)
rhmap_find_value_inline(m, hash, scan, index) ==
    LET f == rhmap_find_inline(m, hash, scan)
    IN  IF f.ret = 1 /\ f.index # index
        THEN rhmap_find_value_inline(m, hash, f.scan, index)
        ELSE f.scan

\* rhmap_remove_inline(&map, hash, scan): the shift back from bucket
\* (hash + scan - 1), 0 in the last vacated bucket, size decremented. A call
\* on an empty bucket is a programmer error that the primitive asserts
\* against (ret Crashes)
rhmap_remove_inline(m, hash, scan) ==
    LET ix == AndMask(Low28(hash) + scan + m.mask, m)
        shift == remove_shift(m, m.entries, ix, 0, LoopFuel(m))
    IN  IF m.entries[ix] = ZeroWord THEN [ret |-> Crashes, map |-> m]
        ELSE [ret |-> 0, map |-> [m EXCEPT !.entries = shift.entries,
                                            !.size = m.size - 1]]

\* rhmap_update_value_inline(&map, hash, old_index, new_index): the entry
\* that decodes to old_index, looked for from the home bucket of hash on,
\* gets new_index; hashes[new_index] = hash. ret Hangs: no entry decodes to
\* old_index
rhmap_update_value_inline(m, hash, old_index, new_index) ==
    LET at == find_last(m, m.entries, AndMask(Low28(hash), m), old_index, LoopFuel(m))
    IN  IF at = Hangs THEN [ret |-> Hangs, map |-> m]
        ELSE [ret |-> 0,
              map |-> [m EXCEPT !.entries[at] =
                                    [p |-> m.entries[at].p,
                                     lo |-> AndNotMask(m.entries[at].lo, m) + new_index],
                                !.hashes[new_index] = hash]]

\* hash_base::imp_grow(min_size) and imp_rehash(count, alloc_size): the map
\* over a new allocation
rh_imp_grow(m, min_size, data_ptr) ==
    LET floor == IF m.size = 0 /\ min_size = 0 THEN 64 \div TypeSize ELSE min_size
        g == rhmap_grow_inline(m, floor)
    IN  rhmap_rehash_inline(m, g.count, g.num_entries, data_ptr)

\* hash_base::imp_remove_last(hash, index)
imp_remove_last(m, hash, index) ==
    LET scan == rhmap_find_value_inline(m, hash, 0, index)
    IN  rhmap_remove_inline(m, hash, scan)

\* hash_base::imp_remove_swap(hash, index, swap_hash)
imp_remove_swap(m, hash, index, swap_hash) ==
    LET scan == rhmap_find_value_inline(m, hash, 0, index)
        removed == rhmap_remove_inline(m, hash, scan)
    IN  IF removed.ret # 0 THEN removed
        ELSE rhmap_update_value_inline(removed.map, swap_hash, removed.map.size, index)

\* hash_map::find(key): ret 1 and the index of the pair, or ret 0
RECURSIVE rh_find(_, _, _, _)
rh_find(m, vals, key, scan) ==
    LET f == rhmap_find_inline(m, rh_hash(key), scan)
    IN  IF f.ret = 1 /\ (f.index + 1 \notin DOMAIN vals \/ vals[f.index + 1].key # key)
        THEN rh_find(m, vals, key, f.scan)
        ELSE f

\* hash_map::imp_insert(&inserted, key, value) on the map after its grow
rh_imp_insert(m, vals, key, value) ==
    LET f == rh_find(m, vals, key, 0)
    IN  IF f.ret = 1
        THEN [inserted |-> FALSE, index |-> f.index, map |-> m, vals |-> vals]
        ELSE [inserted |-> TRUE, index |-> m.size,
              map |-> rhmap_insert_inline(m, rh_hash(key), f.scan, m.size),
              vals |-> Append(vals, map_pair(key, value))]

\* what `vals[map.size]` may hold: the cell past the live pairs was never
\* constructed, or its pair was destroyed
RhJunkPairs == {map_pair(key, value) : key \in JunkValues, value \in JunkValues}

\* hash_map::remove(pos), pos = begin() + index: the non-last case constructs
\* vals[index] from vals[map.size] before the index is touched, and both cases
\* end at the decremented size
rh_remove(m, vals, index, junk_pair) ==
    LET hash == rh_hash(vals[index + 1].key)
        swap_hash == rh_hash(vals[m.size].key)
    IN  IF index + 1 < m.size
        THEN CHOOSE res \in {[ret |-> r.ret, map |-> r.map,
                              vals |-> IF r.ret = 0
                                       THEN SubSeq([vals EXCEPT ![index + 1] = junk_pair],
                                                   1, Len(vals) - 1)
                                       ELSE [vals EXCEPT ![index + 1] = junk_pair]] :
                             r \in {imp_remove_swap(m, hash, index, swap_hash)}} : TRUE
        ELSE CHOOSE res \in {[ret |-> r.ret, map |-> r.map,
                              vals |-> IF r.ret = 0
                                       THEN SubSeq(vals, 1, Len(vals) - 1) ELSE vals] :
                             r \in {imp_remove_last(m, hash, index)}} : TRUE

\* rh::hash_map::insert(pair)
RhInsert(key, value) ==
    /\ Running
    /\ UNCHANGED iters
    /\ map.size < MaxSize
    /\ \E grown \in {IF map.size = map.capacity
                     THEN rh_imp_grow(map, 0, malloc(owned)) ELSE map} :
          \E r \in {rh_imp_insert(grown, data, key, value)} :
              /\ map' = r.map
              /\ data' = r.vals
              /\ last' = Call("rh_insert", key, IF r.inserted THEN 1 ELSE 0, r.index,
                              Unwritten)
              /\ owned' = Exchange(owned, grown.entries_ptr, map.entries_ptr)

\* rh::hash_map::remove(begin() + index) on a live pair
RhRemove(index) ==
    /\ Running
    /\ UNCHANGED iters
    /\ index < map.size
    /\ \E junk_pair \in (IF index + 1 < map.size THEN RhJunkPairs
                         ELSE {map_pair(0, 0)}) :
          \E r \in {rh_remove(map, data, index, junk_pair)} :
              /\ map' = r.map
              /\ data' = r.vals
              /\ last' = Call("rh_remove", index, r.ret, Unwritten, Unwritten)
              /\ UNCHANGED owned

NextRh ==
    \/ \E key \in RhKeys, value \in Values : RhInsert(key, value)
    \/ \E index \in 0 .. MaxSize - 1 : RhRemove(index)

SpecRh == Init /\ [][NextRh]_vars

\* C22: remove(pos) on a pair that is not the last moves the last live pair
\* (index size - 1 before the call) into the vacated cell, and every other
\* surviving pair keeps its cell, key and value.
C22_RemoveMovesLast ==
    [][(last'.op = "rh_remove" /\ Returned(last'.ret) /\ last'.arg + 1 < Len(data)) =>
          /\ Len(data') = Len(data) - 1
          /\ data'[last'.arg + 1] = data[Len(data)]
          /\ \A j \in 1 .. Len(data') :
                j # last'.arg + 1 => data'[j] = data[j]]_vars

-----------------------------------------------------------------------------
(* empty() of the container facades *)

\* rh_hash.h, hash_base::empty(), shared by hash_map and hash_set
hash_base_empty(m) == m.size = 0

\* rh_hash_map.h, hash_map::empty()
hash_map_empty(m) == m.size > 0

\* rh_hash_map.h, hash_set::empty()
hash_set_empty(m) == m.size > 0

\* C23: in every copy of the facades, empty() of hash_map and of hash_set
\* returns true exactly when the index holds no element (size == 0).
C23_EmptyIffNoElements ==
    /\ hash_base_empty(map) <=> map.size = 0
    /\ hash_map_empty(map) <=> map.size = 0
    /\ hash_set_empty(map) <=> map.size = 0

\* C24: after every operation, every occupied bucket b whose element has a
\* true probe distance p >= 2 (recomputed from the hash stored for it)
\* follows an occupied bucket whose element's true probe distance is at
\* least p - 1.
C24_SortedByDistance ==
    Running => \A b \in Occupied(map) :
        TrueDistance(map, b) >= 2 =>
            /\ Before(map, b) \in Occupied(map)
            /\ TrueDistance(map, Before(map, b)) >= TrueDistance(map, b) - 1

\* the distance of the resident of bucket b that C25 has rhmap_insert compare:
\* bucket position minus the hash stored for the element the entry indexes
resident_scan(m, b, junk) ==
    AndMask(b - ReadHash(m, EntryIndex(m.entries[b], m), junk), m)

\* C25: for every resident entry whose probe field reads 15, the distance
\* rhmap_insert compares with the incoming element's scan is the one
\* recomputed from hashes[decode_index(entry)] and the bucket position.
C25_ResidentDistance ==
    Running => \A b \in Occupied(map) : \A junk \in Junk(map) :
        ScanField(map, b) = ScanClamp =>
            slot_scan_of(map, map.entries[b], b, junk) = resident_scan(map, b, junk)

-----------------------------------------------------------------------------
(* removes from the middle of a run of colliding elements *)

\* the caller removes its first element or one of the middle of its first
\* ChainBase ones
ChainMiddle == ChainBase \div 2

\* a caller that grows its index, inserts and removes
NextMid ==
    \/ \E initial_size \in {0} : GrowRehash(initial_size, ChainEntries)
    \/ \E hash \in ChainHashes : Insert(hash, ChainSize, ChainBase)
    \/ \E i \in {0, ChainMiddle} : Remove(i)

SpecMid == Init /\ [][NextMid]_vars

\* the buckets whose entries rhmap_remove moves one bucket back when it
\* removes the entry of bucket ix: those after ix up to the first bucket that
\* is empty or holds an entry in its home bucket
ShiftRun(m, ix) ==
    {nx \in DOMAIN m.entries :
        /\ nx # ix
        /\ \A j \in 1 .. AndMask(nx - ix, m) : m.entries[AndMask(ix + j, m)].p >= 2}

\* the probe distance of the caller's element i in bucket b, from the hash of
\* the caller's record
RecordDistance(m, d, i, b) == AndMask(b - d[i + 1], m) + 1

\* the caller's elements whose home bucket is that of hash
SameHome(m, d, hash) == {i \in 0 .. Len(d) - 1 : AndMask(d[i + 1], m) = AndMask(hash, m)}

\* C26: when rhmap_remove moves an entry whose probe field is 15 one bucket
\* back, the field becomes min(d, 15) for its true probe distance d at the new
\* bucket (15 or 14); and after a remove of a middle element (one that is not
\* in its home bucket and has entries to shift after it) from a table that
\* holds 15 or more elements of one home bucket every remaining element is
\* found under its hash.
C26_ClampedShift ==
    [][(last'.op = "remove" /\ last'.ret \in {0, 1}) =>
          \A ix \in BucketsOf(map, last'.arg) :
              /\ \A nx \in ShiftRun(map, ix) :
                    ScanField(map, nx) = ScanClamp =>
                        /\ ScanField(map', Before(map, nx)) =
                              ClampScan(RecordDistance(map, data,
                                  EntryIndex(map.entries[nx], map), Before(map, nx)))
                        /\ ScanField(map', Before(map, nx)) \in {ScanClamp - 1, ScanClamp}
              /\ ( /\ Cardinality(SameHome(map, data, data[last'.arg + 1])) >= ScanClamp
                   /\ ScanField(map, ix) >= 2
                   /\ ShiftRun(map, ix) # {} ) =>
                    \A i \in 0 .. map'.size - 1 : Finds(map', data'[i + 1], i)]_vars

\* the entry word e after rhmap_remove has renamed element src to dst (ret 1)
Renamed(m, e, ret, dst, src) ==
    IF ret = 1 /\ e # ZeroWord /\ EntryIndex(e, m) = src
    THEN [p |-> e.p, lo |-> AndNotMask(e.lo, m) + dst]
    ELSE e

\* the entry of bucket nx one bucket back, at a probe distance one less
MovedBack(m, d, nx) ==
    [p |-> IF ScanField(m, nx) < ScanClamp THEN ScanField(m, nx) - 1
           ELSE ClampScan(RecordDistance(m, d, EntryIndex(m.entries[nx], m),
                                         Before(m, nx))),
     lo |-> m.entries[nx].lo]

\* the bucket of the entry the caller's find has located for its element i
FoundBucket(m, d, i) == AndMask(d[i + 1] + find_value(m, d[i + 1], 0, i).scan + m.mask, m)

\* C27: rhmap_remove of the entry in bucket b moves each entry of the run that
\* follows b (up to the first bucket that is empty or holds an entry at probe
\* distance 1) back by one bucket with its probe distance reduced by one,
\* writes 0 into the last vacated bucket, and leaves every bucket outside the
\* run as it was, but for the index field of the renamed last element.
C27_ShiftFrame ==
    [][(last'.op = "remove" /\ last'.ret \in {0, 1}) =>
          \A ix \in {FoundBucket(map, data, last'.arg)} :
              /\ \A nx \in ShiftRun(map, ix) :
                    map'.entries[Before(map, nx)] =
                        Renamed(map, MovedBack(map, data, nx),
                                last'.ret, last'.index, last'.src)
              /\ map'.entries[AndMask(ix + Cardinality(ShiftRun(map, ix)), map)] = ZeroWord
              /\ \A b \in DOMAIN map.entries :
                    (b # ix /\ b \notin ShiftRun(map, ix)) =>
                        map'.entries[b] = Renamed(map, map.entries[b],
                                                  last'.ret, last'.index, last'.src)]_vars

-----------------------------------------------------------------------------
(* runs of elements of one home bucket *)

\* two hashes of home bucket 0 in every table of the model that differ in the
\* bits above the mask
HomeHashes == {0, ChainEntries}

\* a caller that grows its index and inserts elements of one home bucket
NextHome ==
    \/ \E initial_size \in {0} : GrowRehash(initial_size, ChainEntries)
    \/ \E hash \in HomeHashes : Insert(hash, ChainSize, ChainBase)

SpecHome == Init /\ [][NextHome]_vars

\* C28: k hashes of one home bucket h inserted into an empty table of at
\* least k + 1 buckets lie in the buckets h, h + 1, .., h + k - 1 in insertion
\* order, with the element indices 0 .. k - 1 and the probe fields
\* min(1, 15), .., min(k, 15): no later element has displaced an earlier one.
C28_RunInInsertionOrder ==
    ( /\ Running
      /\ map.size = Len(data)
      /\ map.size < NumEntries(map)
      /\ \A i \in 1 .. Len(data) : AndMask(data[i], map) = AndMask(data[1], map) ) =>
        \A i \in 0 .. map.size - 1 :
            \E b \in {AndMask(data[1] + i, map)} :
                /\ map.entries[b] # ZeroWord
                /\ EntryIndex(map.entries[b], map) = i
                /\ ScanField(map, b) = ClampScan(i + 1)

\* C29: for every live element index i, rhmap_remove_index(map, i, ..)
\* removes the entry that decodes to i and leaves the index, the return value
\* and dst/src as rhmap_remove does when called after the find that located i.
C29_RemoveIndexIsRemove ==
    Running => \A i \in 0 .. map.size - 1 : \A junk \in Junk(map) :
        \E f \in {find_value(map, Record(i), 0, i)} :
            /\ f.ret = 1
            /\ rhmap_remove_index(map, i, junk) = rhmap_remove(map, Record(i), f.scan, junk)

\* the entry count rhmap_rehash computes from count:
\* `v = (uint32_t)((double)count / (double)load_factor - 0.5)` rounded up to a
\* power of two
rehash_entries(m, count) == RoundUpPow2(EntriesFor(count, LoadFactor(m)))

\* the layout rhmap_rehash makes from what a sizer reported is the sizer's
\* and lies within alloc_size bytes
LayoutFits(m, g) ==
    /\ rehash_entries(m, g.count) = g.num_entries
    /\ 4 * (rehash_entries(m, g.count) + g.count) <= g.alloc_size

\* C30: for every count and alloc_size that rhmap_grow (for any
\* initial_size) or rhmap_resize reports, rhmap_rehash computes from count
\* the entry count N the sizer used, and 4 * (N + count) <= alloc_size.
C30_LayoutFits ==
    Running => \A size \in DesiredSizes :
        /\ LayoutFits(map, rhmap_grow(map, size))
        /\ LayoutFits(map, rhmap_resize(map, size))

-----------------------------------------------------------------------------
(* complete find sequences *)

\* `while (rhmap_find(&iter, &index)) { .. }` from scan on: the indices the
\* calls yield, in order, and ret 0 when the sequence ended with a call that
\* returned 0
RECURSIVE find_sequence(_, _, _, _)
find_sequence(m, hash, scan, calls) ==
    LET f == rhmap_find(m, hash, scan)
    IN  IF calls = 0 THEN [ret |-> Hangs, indices |-> <<>>]
        ELSE IF f.ret # 1 THEN [ret |-> f.ret, indices |-> <<>>]
        ELSE CHOOSE res \in {[ret |-> rest.ret, indices |-> <<f.index>> \o rest.indices] :
                             rest \in {find_sequence(m, hash, f.scan, calls - 1)}} : TRUE

\* the caller's live elements whose hash equals hash in its low 28 bits
Inserted(d, hash) == {i \in 0 .. Len(d) - 1 : Low28(d[i + 1]) = Low28(hash)}

\* C31: in a table whose probe distances are all below the clamp, the find
\* sequence for a hash h, from scan 0 until rhmap_find returns 0, yields the
\* live elements inserted with a hash equal to h in its low 28 bits, each
\* index once and no other index.
C31_FindSequence ==
    ( /\ Running
      /\ map.entries # NULL
      /\ \A b \in Occupied(map) : ScanField(map, b) < ScanClamp ) =>
        \A hash \in Hashes \cup GapHashes :
            \E s \in {find_sequence(map, hash, 0, LoopFuel(map))} :
                /\ s.ret = 0
                /\ {s.indices[k] : k \in DOMAIN s.indices} = Inserted(data, hash)
                /\ Len(s.indices) = Cardinality(Inserted(data, hash))

\* the bits of an entry word above the index field: partial hash and probe
HighBits(m, e) == [p |-> e.p, lo |-> AndNotMask(e.lo, m)]

\* C32: when rhmap_remove returns 1 it has renamed the former last element
\* (index src) to the removed index dst: the element's entry, in its bucket
\* or one bucket back when the shift moved it, keeps its partial-hash bits
\* (and its probe bits where it stayed), and hashes[dst] is the hash that was
\* stored for the moved element.
C32_RenameOnly ==
    [][(last'.op = "remove" /\ last'.ret = 1) =>
          /\ map'.hashes[last'.index] = map.hashes[last'.src]
          /\ \A b \in BucketsOf(map, last'.src) :
                \/ /\ b \in BucketsOf(map', last'.index)
                   /\ HighBits(map, map'.entries[b]) = HighBits(map, map.entries[b])
                \/ /\ b \in ShiftRun(map, FoundBucket(map, data, last'.arg))
                   /\ Before(map, b) \in BucketsOf(map', last'.index)
                   /\ HighBits(map, map'.entries[Before(map, b)]).lo =
                          HighBits(map, map.entries[b]).lo]_vars

\* C33: rhmap_grow on the zero state with initial_size 0 proposes 16 entry
\* words, and on an index that has storage, whatever initial_size is, twice
\* the entry words it has, N' = 2 * (mask + 1); the count it reports is
\* floor(N' * load_factor).
C33_GrowProposal ==
    Running =>
        /\ (map.entries = NULL /\ map.mask = 0) =>
              /\ rhmap_grow(map, 0).num_entries = 16
              /\ rhmap_grow(map, 0).count = (16 * LoadFactor(map)) \div LoadFactorDen
        /\ map.entries # NULL =>
              \A initial_size \in InitialSizes :
                  /\ rhmap_grow(map, initial_size).num_entries = 2 * (map.mask + 1)
                  /\ rhmap_grow(map, initial_size).count
                         = (2 * (map.mask + 1) * LoadFactor(map)) \div LoadFactorDen

\* a grow with initial_size 0 has doubled a 16-entry index that holds elements
C33_Witness ==
    /\ last.op = "grow"
    /\ last.arg = 0
    /\ last.ret = 0
    /\ map.size > 0
    /\ NumEntries(map) = 32
    /\ map.capacity = 25

-----------------------------------------------------------------------------
(* Readers: find sequences of several callers over one index *)

\* `rhmap_iter iter = { &map, hash };`
new_iter(hash) == [active |-> TRUE, hash |-> hash, scan |-> 0, found |-> <<>>]

\* a call that keeps its cursor where every reader's iterator sees it
iter_store_shared(its, r, f) ==
    [q \in DOMAIN its |->
        IF q = r
        THEN [its[q] EXCEPT !.active = (f.ret = 1), !.scan = f.scan,
                            !.found = IF f.ret = 1 THEN Append(@, f.index) ELSE @]
        ELSE [its[q] EXCEPT !.scan = f.scan]]

\* what the call f of rhmap_find on reader r's iterator leaves in the
\* iterators: `iter->scan = scan; *index = entry & mask; return 1;` writes
\* r's cursor and r's index, `return 0` writes nothing and ends r's loop
iter_store(its, r, f) ==
    [its EXCEPT ![r] = [@ EXCEPT !.active = (f.ret = 1), !.scan = f.scan,
                                 !.found = IF f.ret = 1 THEN Append(@, f.index) ELSE @]]

\* reader r sets up an iterator for hash
BeginFind(r, hash) ==
    /\ Running
    /\ ~iters[r].active
    /\ iters' = [iters EXCEPT ![r] = new_iter(hash)]
    /\ last' = Call("iter", hash, 0, Unwritten, r)
    /\ UNCHANGED <<map, data, owned>>

\* `rhmap_find(&iter, &index)` by reader r (src: the reader)
Find(r) ==
    /\ Running
    /\ iters[r].active
    /\ \E f \in {rhmap_find(map, iters[r].hash, iters[r].scan)} :
          /\ iters' = iter_store(iters, r, f)
          /\ last' = Call("find", iters[r].hash, f.ret, f.index, r)
    /\ UNCHANGED <<map, data, owned>>

\* no reader is in a find sequence
NoReader == \A r \in Readers : ~iters[r].active

\* the entry words and elements the readers' caller works with
FindEntries == 4

FindSize == 3

\* readers run their find sequences in any interleaving; the caller changes
\* the index only while no reader is in one
NextFind ==
    \/ NoReader /\ GrowRehash(FindEntries, FindEntries)
    \/ NoReader /\ \E hash \in Hashes : Insert(hash, FindSize, 0)
    \/ NoReader /\ \E i \in {0} : Remove(i)
    \/ \E r \in Readers, hash \in Hashes : BeginFind(r, hash)
    \/ \E r \in Readers : Find(r)

SpecFind == Init /\ [][NextFind]_vars

\* C34: a call of rhmap_find leaves the index (entries, hashes, mask,
\* capacity, size, load_factor) and the other readers' iterators as they
\* were, and however the readers' calls interleave, each call returns what
\* the reader's find sequence run alone on the index returns at that place:
\* the same index with 1, and 0 where the sequence run alone ends.
C34_FindReadsOnly ==
    [][last'.op = "find" =>
          LET r == last'.src
              alone == find_sequence(map, iters[r].hash, 0, LoopFuel(map))
              k == Len(iters[r].found)
          IN  /\ map' = map
              /\ \A q \in Readers \ {r} : iters'[q] = iters[q]
              /\ iters'[r].hash = iters[r].hash
              /\ last'.ret = 1 =>
                    /\ k < Len(alone.indices)
                    /\ alone.indices[k + 1] = last'.index
                    /\ iters'[r].found = SubSeq(alone.indices, 1, k + 1)
              /\ last'.ret # 1 =>
                    /\ last'.ret = alone.ret
                    /\ iters'[r].found = alone.indices]_vars

\* both readers are in a find sequence for one hash, one a candidate ahead
\* of the other, and the reader behind has just made its call
C34_Witness ==
    /\ last.op = "find"
    /\ last.ret = 1
    /\ last.src = 2
    /\ iters[1].active /\ iters[2].active
    /\ iters[1].hash = iters[2].hash
    /\ Len(iters[1].found) = 2
    /\ Len(iters[2].found) = 1
    /\ iters[1].scan # iters[2].scan

\* C35: rhmap_clear on an index that has never been rehashed (the zero
\* state: entries == NULL, mask == 0), the call hash_map::clear() makes on a
\* freshly constructed map, returns, writes through no null pointer and
\* leaves the index as it was.
C35_ClearOnZeroState ==
    [][(last'.op = "clear" /\ map.entries = NULL /\ map.mask = 0) =>
          /\ last'.ret = 0
          /\ map' = map]_vars

====
